---- MODULE Spec2Model ----
(***************************************************************************)
(* VoidFinder (empty_folder_finder.py): the scan worker thread, the queue  *)
(* it reports on, the Tk callbacks that consume the queue, and the         *)
(* move-to-trash handler, as one state machine.                            *)
(*                                                                         *)
(* A file-system name is modelled by its code, a natural number: the names *)
(* the program or its specification mention are the entries of Names (in   *)
(* ASCII order), every other directory name is Sub(i).  A path is the      *)
(* sequence of the names on it; sorted() orders paths component by         *)
(* component.                                                              *)
(***************************************************************************)
EXTENDS Integers, Sequences, FiniteSets, TLC

VARIABLES
    fs,             \* the file system: path -> [dirs, files, readable]
    entry_path,     \* text of the Entry widget (<<>> is the empty string)
    listbox,        \* listbox_empty_folders: sequence of paths
    label_status,   \* text of the main status label
    button_browse,  \* state of the Browse button: "normal" | "disabled"
    errorbox,       \* number of messagebox.showerror dialogs shown by process_queue
    nscans,         \* number of start_scan_thread calls so far
    q,              \* q[s]: the queue.Queue of scan s
    cancel_event,   \* cancel_event[s]: the threading.Event of scan s
    w,              \* w[s]: the worker thread of scan s (position and locals)
    ui,             \* ui[s]: progress window, its widgets and the poll timer of scan s
    emitted,        \* history: every message worker s has put, in order
    delivered,      \* history: every message process_queue has taken from q[s], in order
    cancelMark,     \* history: how far worker s was when its cancel flag was set
    listboxFrom,    \* history: the scan whose 'done' filled the listbox (0: none)
    trash,          \* move_selected_to_trash: position and locals of the handler
    report,         \* the entries of the last summary report, in the order it lists them
    ncalls,         \* history: number of move_selected_to_trash loops started
    lastCheck,      \* history: the latest os.path.exists / os.listdir of the handler
    sent,           \* history: the send2trash calls of the handler's latest loop, each
                    \*   with the check that preceded it
    nchanges,       \* number of changes other programs made to the file system
    modified,       \* history: modified[s]: the tree changed while worker s was running
    sz              \* get_folder_size: the tree it is called on, its position and locals

vars == <<fs, entry_path, listbox, label_status, button_browse, errorbox, nscans,
          q, cancel_event, w, ui, emitted, delivered, cancelMark, listboxFrom,
          trash, report, ncalls, lastCheck, sent, nchanges, modified, sz>>

\* everything but get_folder_size
progVars == <<fs, entry_path, listbox, label_status, button_browse, errorbox, nscans,
              q, cancel_event, w, ui, emitted, delivered, cancelMark, listboxFrom,
              trash, report, ncalls, lastCheck, sent, nchanges, modified>>

\* the widgets of the main window
mainVars == <<entry_path, listbox, label_status, button_browse, errorbox, listboxFrom>>

\* the move-to-trash handler
trashVars == <<trash, report, ncalls, lastCheck, sent>>

\* the file system
envVars == <<fs, nchanges>>

---------------------------------------------------------------------------
(* Bounds of the model *)

MaxScans == 2       \* scans started in one behaviour
MaxScansLarge == 1  \* scans started in one behaviour on the large tree
MaxSel == 2         \* folders selected for one move to the Trash
MaxChanges == 1     \* changes other programs make to the tree in one behaviour
NBulk == 500        \* sub-directories of the large tree
MaxFiles == 2       \* files in the root of a tree get_folder_size is called on

Scans == 1..MaxScans

---------------------------------------------------------------------------
(* Names and paths *)

Names == <<".DS_Store", "Thumbs.db", "desktop.ini", "file.txt", "root">>

Code(str) == CHOOSE i \in DOMAIN Names : Names[i] = str

Sub(i) == Len(Names) + i

IGNORED_ITEMS == {Code(".DS_Store"), Code("Thumbs.db"), Code("desktop.ini")}

BatchSize == 500

ROOT == <<Code("root")>>

\* A directory: its listed sub-directories and other entries (in listing order) and
\* whether it can be listed.  bulk is a compact form of a large directory: bulk
\* further sub-directories, named Sub(1)..Sub(bulk), each listable and holding the
\* one file file.txt, which have no entry of their own in fs.
Dir(dirs, files, readable, bulk) ==
    [dirs |-> dirs, files |-> files, readable |-> readable, bulk |-> bulk]

\* root/{a/ (empty), b/{.DS_Store}, c/{file.txt}}
TreeScenario ==
    (ROOT :> Dir(<<Sub(1), Sub(2), Sub(3)>>, <<>>, TRUE, 0))
    @@ (ROOT \o <<Sub(1)>> :> Dir(<<>>, <<>>, TRUE, 0))
    @@ (ROOT \o <<Sub(2)>> :> Dir(<<>>, <<Code(".DS_Store")>>, TRUE, 0))
    @@ (ROOT \o <<Sub(3)>> :> Dir(<<>>, <<Code("file.txt")>>, TRUE, 0))

\* an empty root
TreeRootEmpty == (ROOT :> Dir(<<>>, <<>>, TRUE, 0))

\* a root that cannot be listed (scandir raises PermissionError)
TreeRootUnreadable == (ROOT :> Dir(<<>>, <<>>, FALSE, 0))

\* root/{file.txt, a/{Thumbs.db/ (an empty directory)}}
TreeNested ==
    (ROOT :> Dir(<<Sub(1)>>, <<Code("file.txt")>>, TRUE, 0))
    @@ (ROOT \o <<Sub(1)>> :> Dir(<<Code("Thumbs.db")>>, <<>>, TRUE, 0))
    @@ (ROOT \o <<Sub(1), Code("Thumbs.db")>> :> Dir(<<>>, <<>>, TRUE, 0))

\* root/{a/ (not listable), b/{desktop.ini, Thumbs.db}}
TreeUnreadableChild ==
    (ROOT :> Dir(<<Sub(1), Sub(2)>>, <<>>, TRUE, 0))
    @@ (ROOT \o <<Sub(1)>> :> Dir(<<>>, <<>>, FALSE, 0))
    @@ (ROOT \o <<Sub(2)>> :> Dir(<<>>, <<Code("desktop.ini"), Code("Thumbs.db")>>, TRUE, 0))

\* root/{d1 .. dNBulk}, each holding file.txt
TreeBig == (ROOT :> Dir(<<>>, <<>>, TRUE, NBulk))

Trees == {TreeScenario, TreeRootEmpty, TreeRootUnreadable, TreeNested,
          TreeUnreadableChild, TreeBig}

Parent(p) == SubSeq(p, 1, Len(p) - 1)

InBulk(filesys, p) ==
    /\ Len(p) > 1
    /\ Parent(p) \in DOMAIN filesys
    /\ \E i \in 1..filesys[Parent(p)].bulk : p[Len(p)] = Sub(i)

\* os.path.exists
Exists(filesys, p) == p \in DOMAIN filesys \/ InBulk(filesys, p)

DirAt(filesys, p) ==
    IF p \in DOMAIN filesys THEN filesys[p] ELSE Dir(<<>>, <<Code("file.txt")>>, TRUE, 0)

\* os.scandir / os.listdir succeed
Listable(filesys, p) == Exists(filesys, p) /\ DirAt(filesys, p).readable

NumDirs(d) == Len(d.dirs) + d.bulk

DirName(d, i) == IF i <= Len(d.dirs) THEN d.dirs[i] ELSE Sub(i - Len(d.dirs))

AllDirs(d) == [i \in 1..NumDirs(d) |-> DirName(d, i)]

---------------------------------------------------------------------------
(* os.walk(top, topdown): the generator's state is the stack of the        *)
(* directories it is inside of, each with the index of the next            *)
(* sub-directory to enter (0: not listed yet).  A directory that cannot be *)
(* listed raises OSError inside os.walk, which (onerror=None) skips it     *)
(* silently.  WalkNext runs the generator to its next yield or to its end. *)

Frame(p) == [root |-> p, next |-> 0]

Item(p, d) == [root |-> p, dirs |-> AllDirs(d), files |-> d.files]

NoItem == [root |-> <<>>, dirs |-> <<>>, files |-> <<>>]

RECURSIVE WalkNext(_, _, _)
WalkNext(stack, filesys, topdown) ==
    IF stack = <<>> THEN [yielded |-> FALSE, stack |-> <<>>, item |-> NoItem]
    ELSE LET top == stack[Len(stack)]
             rest == SubSeq(stack, 1, Len(stack) - 1)
             d == DirAt(filesys, top.root)
         IN  IF ~Exists(filesys, top.root) \/ ~d.readable
             THEN WalkNext(rest, filesys, topdown)
             ELSE IF top.next = 0
             THEN IF topdown
                  THEN [yielded |-> TRUE, stack |-> rest \o <<[top EXCEPT !.next = 1]>>,
                        item |-> Item(top.root, d)]
                  ELSE WalkNext(rest \o <<[top EXCEPT !.next = 1]>>, filesys, topdown)
             ELSE IF top.next <= NumDirs(d)
             THEN WalkNext(rest \o <<[top EXCEPT !.next = @ + 1],
                                     Frame(top.root \o <<DirName(d, top.next)>>)>>,
                           filesys, topdown)
             ELSE IF topdown
             THEN WalkNext(rest, filesys, topdown)
             ELSE [yielded |-> TRUE, stack |-> rest, item |-> Item(top.root, d)]

---------------------------------------------------------------------------
(* Messages on the queue: (type, value); the value is a text, a number or  *)
(* a list of paths according to the type, None is all three empty.         *)

Msg(type, text, num, paths) == [type |-> type, text |-> text, num |-> num, paths |-> paths]

Terminal == {"done", "cancelled", "error"}

Put_shared(s, m) ==
    /\ q' = [q EXCEPT ![nscans] = Append(@, m)]
    /\ emitted' = [emitted EXCEPT ![s] = Append(@, m)]

Put(s, m) ==
    /\ q' = [q EXCEPT ![s] = Append(@, m)]
    /\ emitted' = [emitted EXCEPT ![s] = Append(@, m)]

WorkerIdle == [pc |-> "idle", folder_path |-> <<>>, walk |-> <<>>, total_dirs |-> 0,
               processed_dirs |-> 0, empty_folders |-> <<>>, root |-> <<>>]

WorkerGone == [WorkerIdle EXCEPT !.pc = "gone"]

\* the thread has returned; its locals keep their last values
WorkerExit(s) == [w[s] EXCEPT !.pc = "exit", !.walk = <<>>, !.root = <<>>]

---------------------------------------------------------------------------
(* scan_thread_worker *)

\* line 122
NonIgnored(names) == SelectSeq(names, LAMBDA f : f \notin IGNORED_ITEMS)

IsEmptyFolder_nofilter(dirs, files) == dirs = <<>> /\ files = <<>>

IsEmptyFolder_byname(dirs, files) == NonIgnored(dirs \o files) = <<>>

\* line 124: not dirs and not non_ignored_files
IsEmptyFolder(dirs, files) == dirs = <<>> /\ NonIgnored(files) = <<>>

CancelledMsg_partial(s) == Msg("cancelled", "", 0, w[s].empty_folders)

\* lines 107 and 118: the message of a cancelled scan
CancelledMsg(s) == Msg("cancelled", "", 0, <<>>)

WorkerCancelled_noreturn(s) ==
    /\ Put(s, CancelledMsg(s))
    /\ UNCHANGED w

\* lines 105-108 and 116-119: the flag is set; report it and return
WorkerCancelled(s) ==
    /\ Put(s, CancelledMsg(s))
    /\ w' = [w EXCEPT ![s] = WorkerExit(s)]

\* line 102; os.walk(folder_path) of line 104 starts with the root on its stack
WorkerStart(s) ==
    /\ w[s].pc = "prescan"
    /\ Put(s, Msg("status", "Pre-scanning to count items...", 0, <<>>))
    /\ w' = [w EXCEPT ![s].pc = "pass1",
                      ![s].walk = <<Frame(w[s].folder_path)>>,
                      ![s].total_dirs = 0]
    /\ UNCHANGED <<sz, mainVars, trashVars, envVars, modified, nscans, cancel_event, ui,
                   delivered, cancelMark>>

WorkerMax_skipzero(s) ==
    /\ IF w[s].total_dirs > 0
       THEN Put(s, Msg("max", "", w[s].total_dirs, <<>>))
       ELSE UNCHANGED <<q, emitted>>
    /\ w' = [w EXCEPT ![s].pc = "pass2",
                      ![s].walk = <<Frame(w[s].folder_path)>>,
                      ![s].empty_folders = <<>>,
                      ![s].processed_dirs = 0]

\* line 110, then lines 113-115: the second walk starts
WorkerMax(s) ==
    /\ Put(s, Msg("max", "", w[s].total_dirs, <<>>))
    /\ w' = [w EXCEPT ![s].pc = "pass2",
                      ![s].walk = <<Frame(w[s].folder_path)>>,
                      ![s].empty_folders = <<>>,
                      ![s].processed_dirs = 0]

\* lines 104-110: one turn of the pre-scan loop
WorkerPass1(s) ==
    /\ w[s].pc = "pass1"
    /\ LET nx == WalkNext(w[s].walk, fs, TRUE)
       IN  IF ~nx.yielded THEN WorkerMax(s)
           ELSE IF cancel_event[s] THEN WorkerCancelled(s)
           ELSE /\ w' = [w EXCEPT ![s].walk = nx.stack,
                                  ![s].total_dirs = @ + Len(nx.item.dirs)]
                /\ UNCHANGED <<q, emitted>>
    /\ UNCHANGED <<sz, mainVars, trashVars, envVars, modified, nscans, cancel_event, ui,
                   delivered, cancelMark>>

\* lines 132-133
WorkerDone(s) ==
    /\ Put(s, Msg("done", "", 0, w[s].empty_folders))
    /\ w' = [w EXCEPT ![s] = WorkerExit(s)]

\* lines 121-128: one directory of the main scan
WorkerClassify(s, nx) ==
    LET processed == w[s].processed_dirs + 1
        found == IF IsEmptyFolder(nx.item.dirs, nx.item.files)
                 THEN Append(w[s].empty_folders, nx.item.root)
                 ELSE w[s].empty_folders
    IN  IF processed % BatchSize = 0
        THEN /\ Put(s, Msg("progress", "", processed, <<>>))
             /\ w' = [w EXCEPT ![s].pc = "batch", ![s].walk = nx.stack,
                               ![s].processed_dirs = processed,
                               ![s].empty_folders = found,
                               ![s].root = nx.item.root]
        ELSE /\ w' = [w EXCEPT ![s].walk = nx.stack,
                               ![s].processed_dirs = processed,
                               ![s].empty_folders = found]
             /\ UNCHANGED <<q, emitted>>

WorkerPass2_nocheck(s) ==
    /\ w[s].pc = "pass2"
    /\ LET nx == WalkNext(w[s].walk, fs, FALSE)
       IN  IF ~nx.yielded THEN WorkerDone(s)
           ELSE WorkerClassify(s, nx)
    /\ UNCHANGED <<sz, mainVars, trashVars, envVars, modified, nscans, cancel_event, ui,
                   delivered, cancelMark>>

\* lines 115-133: one turn of the main loop
WorkerPass2(s) ==
    /\ w[s].pc = "pass2"
    /\ LET nx == WalkNext(w[s].walk, fs, FALSE)
       IN  IF ~nx.yielded THEN WorkerDone(s)
           ELSE IF cancel_event[s] THEN WorkerCancelled(s)
           ELSE WorkerClassify(s, nx)
    /\ UNCHANGED <<sz, mainVars, trashVars, envVars, modified, nscans, cancel_event, ui,
                   delivered, cancelMark>>

\* lines 129-130: the status message of a batch
WorkerBatchStatus(s) ==
    /\ w[s].pc = "batch"
    /\ Put(s, Msg("status", "Scanning:", 0, <<w[s].root>>))
    /\ w' = [w EXCEPT ![s].pc = "pass2", ![s].root = <<>>]
    /\ UNCHANGED <<sz, mainVars, trashVars, envVars, modified, nscans, cancel_event, ui,
                   delivered, cancelMark>>

\* lines 134-135: an exception raised inside the try block (by a console write of
\* lines 106, 117, 130, 132, or by the walk for anything but an OSError of a listing)
WorkerRaise(s) ==
    /\ w[s].pc \in {"pass1", "pass2", "batch"}
    /\ Put(s, Msg("error", "exception", 0, <<>>))
    /\ w' = [w EXCEPT ![s] = WorkerExit(s)]
    /\ UNCHANGED <<sz, mainVars, trashVars, envVars, modified, nscans, cancel_event, ui,
                   delivered, cancelMark>>

---------------------------------------------------------------------------
(* The Tk side: start_scan_thread, on_cancel_scan, process_queue,          *)
(* populate_results_in_listbox.  Callbacks run one at a time on the main   *)
(* thread; the progress window holds the grab while it exists.             *)

Label(text, n, fg) == [text |-> text, n |-> n, fg |-> fg]

UiNone == [progress_win |-> "none", status_label |-> [text |-> "", paths |-> <<>>],
           maximum |-> 100, value |-> 0, after |-> 0]

\* a destroyed Toplevel takes its widgets with it; the timer is root's
Destroyed(u) == [UiNone EXCEPT !.progress_win = "destroyed", !.after = u.after]

RECURSIVE PathLess(_, _)
PathLess(a, b) ==
    IF a = <<>> THEN b # <<>>
    ELSE IF b = <<>> THEN FALSE
    ELSE IF Head(a) # Head(b) THEN Head(a) < Head(b)
    ELSE PathLess(Tail(a), Tail(b))

RECURSIVE Insert(_, _)
Insert(p, seq) ==
    IF seq = <<>> THEN <<p>>
    ELSE IF PathLess(p, Head(seq)) THEN <<p>> \o seq
    ELSE <<Head(seq)>> \o Insert(p, Tail(seq))

\* sorted(empty_folders), line 209
RECURSIVE Sorted(_)
Sorted(seq) == IF seq = <<>> THEN <<>> ELSE Insert(Head(seq), Sorted(Tail(seq)))

Large(filesys) == \E p \in DOMAIN filesys : filesys[p].bulk > 0

ScanBudget == IF Large(fs) THEN MaxScansLarge ELSE MaxScans

NoGrab == \A s \in Scans : ui[s].progress_win # "open"

PopulateResults_busy(empty_folders, from) ==
    /\ listbox' = Sorted(empty_folders)
    /\ listboxFrom' = from
    /\ label_status' = IF empty_folders # <<>>
                       THEN Label("Found empty folders.", Len(empty_folders), "black")
                       ELSE Label("No empty folders found.", 0, "black")
    /\ UNCHANGED button_browse

\* lines 205-215
PopulateResults(empty_folders, from) ==
    /\ listbox' = Sorted(empty_folders)
    /\ listboxFrom' = from
    /\ label_status' = IF empty_folders # <<>>
                       THEN Label("Found empty folders.", Len(empty_folders), "black")
                       ELSE Label("No empty folders found.", 0, "black")
    /\ button_browse' = "normal"

\* the histories follow the scans in progress: a scan whose thread has returned
\* when the next scan starts is final (its queue is not read again), and its
\* records are dropped then
Final(r) == w[r].pc = "exit"

\* lines 137-172: the new scan gets its own window, queue, event, thread and timer
StartScan(folder_path) ==
    LET s == nscans + 1
    IN  /\ nscans < ScanBudget
        /\ nscans' = s
        /\ listbox' = <<>>
        /\ listboxFrom' = 0
        /\ label_status' = Label("Searching for empty folders...", 0, "blue")
        /\ button_browse' = "disabled"
        /\ ui' = [ui EXCEPT ![s] = [UiNone EXCEPT !.progress_win = "open",
                                                  !.status_label.text = "Initializing scan...",
                                                  !.after = 1]]
        /\ cancel_event' = [cancel_event EXCEPT ![s] = FALSE]
        /\ q' = [r \in Scans |-> IF r = s \/ Final(r) THEN <<>> ELSE q[r]]
        /\ w' = [r \in Scans |->
                    IF r = s THEN [WorkerIdle EXCEPT !.pc = "prescan",
                                                     !.folder_path = folder_path]
                    ELSE IF Final(r) THEN WorkerGone ELSE w[r]]
        /\ emitted' = [r \in Scans |-> IF r = s \/ Final(r) THEN <<>> ELSE emitted[r]]
        /\ delivered' = [r \in Scans |-> IF r = s \/ Final(r) THEN <<>> ELSE delivered[r]]
        /\ cancelMark' = [r \in Scans |-> IF r = s \/ Final(r) THEN "none" ELSE cancelMark[r]]
        /\ modified' = [r \in Scans |-> IF r = s \/ Final(r) THEN FALSE ELSE modified[r]]

\* lines 87-93: Browse, a directory chosen in the dialog
SelectDirectory ==
    /\ button_browse = "normal"
    /\ NoGrab
    /\ trash.pc = "idle"
    /\ \E folder_selected \in {ROOT} :
        /\ entry_path' = folder_selected
        /\ StartScan(folder_selected)
    /\ UNCHANGED <<sz, trashVars, envVars, errorbox>>

\* lines 158-163: the progress window is closed by the user
OnCancelScan(s) ==
    /\ ui[s].progress_win = "open"
    /\ cancel_event' = [cancel_event EXCEPT ![s] = TRUE]
    /\ ui' = [ui EXCEPT ![s] = Destroyed(@)]
    /\ label_status' = [label_status EXCEPT !.text = "Scan cancelled by user.", !.n = 0]
    /\ button_browse' = "normal"
    /\ cancelMark' = [cancelMark EXCEPT ![s] =
            IF \E i \in DOMAIN emitted[s] : emitted[s][i].type = "max"
            THEN "after_max" ELSE "before_max"]
    /\ UNCHANGED <<sz, trashVars, envVars, modified, entry_path, listbox, errorbox, nscans,
                   q, w, emitted, delivered, listboxFrom>>

QueueAbandoned_never(s) == FALSE

\* lines 176-178: a cancelled scan's queue is no longer read
QueueAbandoned(s) == cancel_event[s]

\* lines 181-199: one message taken from the queue
HandleMessage(s, m) ==
    /\ q' = [q EXCEPT ![s] = Tail(@)]
    /\ delivered' = [delivered EXCEPT ![s] = Append(@, m)]
    /\ CASE m.type = "max" ->
              /\ ui' = [ui EXCEPT ![s].maximum = IF m.num > 0 THEN m.num ELSE 1]
              /\ UNCHANGED <<listbox, listboxFrom, label_status, button_browse, errorbox>>
         [] m.type = "progress" ->
              /\ ui' = [ui EXCEPT ![s].value = m.num]
              /\ UNCHANGED <<listbox, listboxFrom, label_status, button_browse, errorbox>>
         [] m.type = "status" ->
              /\ ui' = [ui EXCEPT ![s].status_label = [text |-> m.text, paths |-> m.paths]]
              /\ UNCHANGED <<listbox, listboxFrom, label_status, button_browse, errorbox>>
         [] m.type = "done" ->
              /\ ui' = [ui EXCEPT ![s] = Destroyed(@)]
              /\ PopulateResults(m.paths, s)
              /\ UNCHANGED errorbox
         [] m.type = "cancelled" ->
              UNCHANGED <<ui, listbox, listboxFrom, label_status, button_browse, errorbox>>
         [] m.type = "error" ->
              /\ ui' = [ui EXCEPT ![s] = Destroyed(@)]
              /\ errorbox' = errorbox + 1
              /\ PopulateResults(<<>>, 0)

\* lines 174-203: one firing of the timer.  The finally clause re-arms the timer on
\* every way out of the try block, the returns of lines 191, 194 and 199 included;
\* only the return of line 178 leaves it unarmed.
ProcessQueue(s) ==
    /\ ui[s].after > 0
    /\ IF QueueAbandoned(s)
       THEN /\ ui' = [ui EXCEPT ![s].after = @ - 1]
            /\ UNCHANGED <<q, delivered, listbox, listboxFrom, label_status,
                           button_browse, errorbox>>
       ELSE IF q[s] = <<>>
       THEN UNCHANGED <<ui, q, delivered, listbox, listboxFrom, label_status,
                        button_browse, errorbox>>
       ELSE HandleMessage(s, Head(q[s]))
    /\ UNCHANGED <<sz, trashVars, envVars, modified, entry_path, nscans, cancel_event, w,
                   emitted, cancelMark>>

---------------------------------------------------------------------------
(* move_selected_to_trash.  The handler runs on the main thread; its       *)
(* dialogs are modal, so no other button of the main window acts until it  *)
(* returns.  Other programs may change the tree between any two of its     *)
(* system calls.                                                           *)

TrashIdle == [pc |-> "idle", folders_to_trash |-> <<>>, i |-> 0, current_contents |-> <<>>,
              successful_moves |-> <<>>, failed_moves |-> <<>>]

NoCheck == [call |-> 0, i |-> 0, path |-> <<>>, exists |-> FALSE, listed |-> FALSE,
            listing |-> <<>>]

Failure(path, reason) == [path |-> path, reason |-> reason]

IsPrefix(a, b) == Len(a) <= Len(b) /\ SubSeq(b, 1, Len(a)) = a

\* os.listdir: the names of all entries
Listing(d) == AllDirs(d) \o d.files

\* the tree without the directory p and everything below it
Removed(filesys, p) ==
    LET kept == {x \in DOMAIN filesys : ~IsPrefix(p, x)}
    IN  [x \in kept |->
            IF x = Parent(p)
            THEN [filesys[x] EXCEPT !.dirs = SelectSeq(@, LAMBDA n : n # p[Len(p)])]
            ELSE filesys[x]]

\* the workers that are running see the tree change
Touch == modified' = [s \in Scans |-> modified[s] \/ w[s].pc \notin {"idle", "exit"}]

\* ascending index sequences of 1..n with 1..MaxSel entries: curselection()
Selections(n) ==
    {sel \in UNION {[1..k -> 1..n] : k \in 1..MaxSel} :
        \A a, b \in DOMAIN sel : a < b => sel[a] < sel[b]}

NextFolder_abort(tr) ==
    IF tr.i < Len(tr.folders_to_trash) /\ tr.failed_moves = <<>>
    THEN [tr EXCEPT !.pc = "exists", !.i = @ + 1, !.current_contents = <<>>]
    ELSE [tr EXCEPT !.pc = "report", !.current_contents = <<>>]

\* the next folder of the loop, or the report when the list is through
NextFolder(tr) ==
    IF tr.i < Len(tr.folders_to_trash)
    THEN [tr EXCEPT !.pc = "exists", !.i = @ + 1, !.current_contents = <<>>]
    ELSE [tr EXCEPT !.pc = "report", !.current_contents = <<>>]

\* lines 291-300: Move to Trash, some folders selected, the prompt answered yes
MoveSelectedToTrash ==
    /\ trash.pc = "idle"
    /\ NoGrab
    /\ nscans < ScanBudget
    /\ \E sel \in Selections(Len(listbox)) :
        trash' = NextFolder([TrashIdle EXCEPT
                     !.folders_to_trash = [k \in DOMAIN sel |-> listbox[sel[k]]]])
    /\ ncalls' = ncalls + 1
    /\ lastCheck' = NoCheck
    /\ sent' = <<>>
    /\ UNCHANGED <<sz, mainVars, envVars, modified, report, nscans, q, cancel_event,
                   w, ui, emitted, delivered, cancelMark>>

\* lines 304-305 (and 316-317 when the folder is gone)
TrashExists ==
    /\ trash.pc = "exists"
    /\ LET folder_path == trash.folders_to_trash[trash.i]
           found == Exists(fs, folder_path)
       IN  /\ lastCheck' = [NoCheck EXCEPT !.call = ncalls, !.i = trash.i,
                                           !.path = folder_path, !.exists = found]
           /\ trash' = IF found THEN [trash EXCEPT !.pc = "listdir"]
                       ELSE NextFolder([trash EXCEPT !.failed_moves = Append(@,
                                Failure(folder_path,
                                        "Folder not found (already moved or deleted)."))])
    /\ UNCHANGED <<sz, mainVars, envVars, modified, report, ncalls, sent, nscans, q,
                   cancel_event, w, ui, emitted, delivered, cancelMark>>

\* line 307 (and 316-317 when the listing raises)
TrashListdir ==
    /\ trash.pc = "listdir"
    /\ LET folder_path == trash.folders_to_trash[trash.i]
       IN  IF Listable(fs, folder_path)
           THEN /\ lastCheck' = [lastCheck EXCEPT !.listed = TRUE,
                                     !.listing = Listing(DirAt(fs, folder_path))]
                /\ trash' = [trash EXCEPT !.pc = "move",
                                 !.current_contents = Listing(DirAt(fs, folder_path))]
           ELSE /\ UNCHANGED lastCheck
                /\ trash' = NextFolder([trash EXCEPT !.failed_moves = Append(@,
                                Failure(folder_path, "os.listdir error"))])
    /\ UNCHANGED <<sz, mainVars, envVars, modified, report, ncalls, sent, nscans, q,
                   cancel_event, w, ui, emitted, delivered, cancelMark>>

Send2Trash_unguarded(folder_path, moved) ==
    /\ sent' = Append(sent, [path |-> folder_path, call |-> ncalls, i |-> trash.i,
                             check |-> lastCheck, moved |-> moved])
    /\ IF moved THEN fs' = Removed(fs, folder_path) /\ Touch
                ELSE UNCHANGED <<fs, modified>>
    /\ trash' = NextFolder([trash EXCEPT !.successful_moves = Append(@, folder_path)])

\* line 311: send2trash is called; it moves the folder or raises
Send2Trash(folder_path, moved) ==
    /\ sent' = Append(sent, [path |-> folder_path, call |-> ncalls, i |-> trash.i,
                             check |-> lastCheck, moved |-> moved])
    /\ IF moved
       THEN /\ fs' = Removed(fs, folder_path)
            /\ Touch
            /\ trash' = NextFolder([trash EXCEPT !.successful_moves = Append(@, folder_path)])
       ELSE /\ UNCHANGED <<fs, modified>>
            /\ trash' = NextFolder([trash EXCEPT !.failed_moves = Append(@,
                            Failure(folder_path, "send2trash error"))])

TrashVerified_stale(contents) == TRUE

\* lines 308-310: nothing but ignored names in the fresh listing
TrashVerified(contents) == NonIgnored(contents) = <<>>

\* lines 308-317
TrashMove ==
    /\ trash.pc = "move"
    /\ LET folder_path == trash.folders_to_trash[trash.i]
       IN  IF TrashVerified(trash.current_contents)
           THEN \E moved \in BOOLEAN :
                    /\ moved => folder_path \in DOMAIN fs
                    /\ Send2Trash(folder_path, moved)
           ELSE /\ trash' = NextFolder([trash EXCEPT !.failed_moves = Append(@,
                                Failure(folder_path, "No longer empty."))])
                /\ UNCHANGED <<fs, modified, sent>>
    /\ UNCHANGED <<sz, mainVars, report, ncalls, lastCheck, nchanges, nscans, q,
                   cancel_event, w, ui, emitted, delivered, cancelMark>>

\* lines 319-342: the report lists the moved folders, then the failed ones
Summary(tr) ==
    [k \in DOMAIN tr.successful_moves |-> Failure(tr.successful_moves[k], "moved")]
    \o tr.failed_moves

\* lines 319-353: the report is shown and closed, then the folder is scanned again
TrashReport ==
    /\ trash.pc = "report"
    /\ report' = Summary(trash)
    /\ trash' = TrashIdle
    /\ IF entry_path # <<>>
       THEN StartScan(entry_path)
       ELSE UNCHANGED <<nscans, listbox, listboxFrom, label_status, button_browse, ui, q,
                        cancel_event, w, emitted, delivered, cancelMark, modified>>
    /\ UNCHANGED <<sz, envVars, entry_path, errorbox, ncalls, lastCheck, sent>>

---------------------------------------------------------------------------
(* Other programs: after the scan, a file appears in a folder that was     *)
(* selected for the move and is not dealt with yet, or the folder is       *)
(* removed, or it loses its read permission.  The handler reads the tree   *)
(* only from line 304 on, so a change made before the selection acts as    *)
(* one made after it.                                                      *)

FsChange ==
    /\ nchanges < MaxChanges
    /\ trash.pc \in {"exists", "listdir", "move"}
    /\ nchanges' = nchanges + 1
    /\ \E k \in trash.i..Len(trash.folders_to_trash) :
        LET p == trash.folders_to_trash[k]
        IN  /\ p \in DOMAIN fs
            /\ \/ \E name \in {Code("file.txt"), Code(".DS_Store")} :
                    /\ \A j \in DOMAIN fs[p].files : fs[p].files[j] # name
                    /\ fs' = [fs EXCEPT ![p].files = Append(@, name)]
               \/ fs' = Removed(fs, p)
               \/ /\ fs[p].readable
                  /\ fs' = [fs EXCEPT ![p].readable = FALSE]
    /\ Touch
    /\ UNCHANGED <<sz, mainVars, trashVars, nscans, q, cancel_event, w, ui, emitted,
                   delivered, cancelMark>>

---------------------------------------------------------------------------
(* get_folder_size.  The trees it is called on give every file its         *)
(* attributes: whether it is a symbolic link, its size in bytes, and       *)
(* whether os.path.getsize can read it (a broken link, a vanished file and *)
(* a file in a directory without search permission cannot be read).  A     *)
(* name among the dirs of a directory that has no directory of its own is  *)
(* a symbolic link to a directory: os.walk lists it and does not enter it. *)

FileSizes == {100, 2048}

FileAttr(islink, size, readable) == [islink |-> islink, size |-> size, readable |-> readable]

Attrs == {FileAttr(l, n, r) : l \in BOOLEAN, n \in FileSizes, r \in BOOLEAN}

\* the paths of the files of a tree
FilePaths(tree) ==
    UNION {{p \o <<tree[p].files[j]>> : j \in DOMAIN tree[p].files} : p \in DOMAIN tree}

\* a root with up to MaxFiles files and with no sub-directory, a link to a
\* directory, or a directory (listable or not) holding one file
SizeTrees ==
    LET known == <<Code("file.txt"), Code(".DS_Store"), Code("Thumbs.db")>>
        names(n) == [i \in 1..n |-> IF i <= Len(known) THEN known[i] ELSE Sub(i)]
        roots == {Dir(dirs, names(n), r, 0) :
                     dirs \in {<<>>, <<Sub(1)>>}, n \in 0..MaxFiles, r \in BOOLEAN}
        subs == {Dir(<<>>, <<Code("file.txt")>>, r, 0) : r \in BOOLEAN}
    IN  {(ROOT :> d) : d \in roots}
        \cup {(ROOT :> d) @@ (ROOT \o <<Sub(1)>> :> sub) :
                 d \in {x \in roots : x.dirs # <<>>}, sub \in subs}

SizeIdle == [pc |-> "idle", tree |-> TreeRootEmpty, attrs |-> <<>>, folder_path |-> <<>>,
             walk |-> <<>>, dirpath |-> <<>>, filenames |-> <<>>, total_size |-> 0]

\* lines 60-64: the call; os.walk(folder_path) starts with the root on its stack
GetFolderSize ==
    /\ sz.pc = "call"
    /\ sz' = [sz EXCEPT !.pc = "walk", !.total_size = 0, !.walk = <<Frame(sz.folder_path)>>]
    /\ UNCHANGED progVars

\* lines 64 and 74: the walk yields its next directory, or is through and the total
\* is returned; a directory that cannot be listed is skipped inside os.walk
GetFolderSizeWalk ==
    /\ sz.pc = "walk"
    /\ LET nx == WalkNext(sz.walk, sz.tree, TRUE)
       IN  sz' = IF nx.yielded
                 THEN [sz EXCEPT !.walk = nx.stack, !.dirpath = nx.item.root,
                                 !.filenames = nx.item.files,
                                 !.pc = IF nx.item.files = <<>> THEN "walk" ELSE "files"]
                 ELSE [sz EXCEPT !.pc = "return", !.walk = <<>>, !.dirpath = <<>>]
    /\ UNCHANGED progVars

FileSize_followlinks(attrs, fp) == IF attrs[fp].readable THEN attrs[fp].size ELSE 0

\* lines 67-71: what one file adds: nothing for a link, nothing when getsize raises
\* OSError (caught at line 70), its size otherwise
FileSize(attrs, fp) ==
    IF attrs[fp].islink THEN 0
    ELSE IF attrs[fp].readable THEN attrs[fp].size
    ELSE 0

\* lines 65-71: one file of the directory
GetFolderSizeFile ==
    /\ sz.pc = "files"
    /\ LET fp == sz.dirpath \o <<Head(sz.filenames)>>
           rest == Tail(sz.filenames)
       IN  sz' = [sz EXCEPT !.total_size = @ + FileSize(sz.attrs, fp),
                           !.filenames = rest,
                           !.pc = IF rest = <<>> THEN "walk" ELSE "files"]
    /\ UNCHANGED progVars

---------------------------------------------------------------------------

\* the main window as it is built, nothing started yet
Idle ==
    /\ entry_path = <<>>
    /\ listbox = <<>>
    /\ label_status = Label("Select a directory to begin.", 0, "black")
    /\ button_browse = "normal"
    /\ errorbox = 0
    /\ nscans = 0
    /\ q = [s \in Scans |-> <<>>]
    /\ cancel_event = [s \in Scans |-> FALSE]
    /\ w = [s \in Scans |-> WorkerIdle]
    /\ ui = [s \in Scans |-> UiNone]
    /\ emitted = [s \in Scans |-> <<>>]
    /\ delivered = [s \in Scans |-> <<>>]
    /\ cancelMark = [s \in Scans |-> "none"]
    /\ listboxFrom = 0
    /\ trash = TrashIdle
    /\ report = <<>>
    /\ ncalls = 0
    /\ lastCheck = NoCheck
    /\ sent = <<>>
    /\ nchanges = 0
    /\ modified = [s \in Scans |-> FALSE]

Init ==
    /\ fs \in Trees
    /\ Idle
    /\ sz = SizeIdle

Next ==
    \/ SelectDirectory
    \/ \E s \in Scans : OnCancelScan(s)
    \/ \E s \in Scans : ProcessQueue(s)
    \/ \E s \in Scans : WorkerStart(s)
    \/ \E s \in Scans : WorkerPass1(s)
    \/ \E s \in Scans : WorkerPass2(s)
    \/ \E s \in Scans : WorkerBatchStatus(s)
    \/ \E s \in Scans : WorkerRaise(s)
    \/ MoveSelectedToTrash
    \/ TrashExists
    \/ TrashListdir
    \/ TrashMove
    \/ TrashReport
    \/ FsChange

Spec == Init /\ [][Next]_vars

\* A started thread that can take a step is scheduled in the end, and the Tk event
\* loop runs a timer callback that root.after has armed.  Nothing obliges the user
\* to act, other programs to change the tree, or an exception to be raised.
\* A turn of either loop is enabled exactly when the worker is in that loop, and it
\* always changes the worker, so weak fairness of the turn is written out with the
\* worker's position in place of ENABLED.
Fairness ==
    \A s \in Scans :
        /\ WF_vars(WorkerStart(s))
        /\ <>[](w[s].pc = "pass1") => []<><<WorkerPass1(s)>>_vars
        /\ <>[](w[s].pc = "pass2") => []<><<WorkerPass2(s)>>_vars
        /\ WF_vars(WorkerBatchStatus(s))
        /\ WF_vars(ProcessQueue(s))

FairSpec == Spec /\ Fairness

\* get_folder_size called on the root of any of the trees, with any attributes
SizeInit ==
    /\ fs = TreeRootEmpty
    /\ Idle
    /\ \E tree \in SizeTrees :
         \E attrs \in [FilePaths(tree) -> Attrs] :
            sz = [SizeIdle EXCEPT !.pc = "call", !.tree = tree, !.attrs = attrs,
                                  !.folder_path = ROOT]

SizeNext ==
    \/ GetFolderSize
    \/ GetFolderSizeWalk
    \/ GetFolderSizeFile

SizeSpec == SizeInit /\ [][SizeNext]_vars

---------------------------------------------------------------------------
(* Vocabulary of the properties *)

Last(seq) == seq[Len(seq)]

Has(seq, type) == \E i \in DOMAIN seq : seq[i].type = type

Count(seq, types) == Cardinality({i \in DOMAIN seq : seq[i].type \in types})

Range(seq) == {seq[i] : i \in DOMAIN seq}

NoDuplicates(seq) == \A i, j \in DOMAIN seq : seq[i] = seq[j] => i = j

Ended(s) == w[s].pc = "exit"

EndedWith(s, type) == Ended(s) /\ emitted[s] # <<>> /\ Last(emitted[s]).type = type

\* every directory of the tree, the compact ones included
AllPaths(filesys) ==
    DOMAIN filesys \cup
    UNION {{p \o <<Sub(i)>> : i \in 1..filesys[p].bulk} : p \in DOMAIN filesys}

\* the directories a walk from top lists: top and what lies below it, as far as
\* every directory on the way can be listed
Visited(filesys, top) ==
    {p \in AllPaths(filesys) :
        /\ Len(p) >= Len(top)
        /\ SubSeq(p, 1, Len(top)) = top
        /\ \A k \in Len(top)..Len(p) : Listable(filesys, SubSeq(p, 1, k))}

\* no sub-directory, and no file with a name outside IGNORED_ITEMS
EffectivelyEmpty(filesys, p) ==
    LET d == DirAt(filesys, p)
    IN  /\ NumDirs(d) = 0
        /\ \A i \in DOMAIN d.files : d.files[i] \in IGNORED_ITEMS

---------------------------------------------------------------------------
(* C1: every worker puts exactly one terminal message ('done', 'cancelled' *)
(* or 'error'), and it is the last message it puts: a worker that is still *)
(* running has put none, a worker that has returned has put one, at the    *)
(* end of what it has put.                                                 *)
C1_OneTerminalLast ==
    \A s \in Scans :
        /\ Count(emitted[s], Terminal) <= 1
        /\ Ended(s) <=> Count(emitted[s], Terminal) = 1
        /\ Count(emitted[s], Terminal) = 1 => Last(emitted[s]).type \in Terminal

\* a scan cancelled in its main pass, after 'status' and 'max'
C1_Witness ==
    \E s \in Scans : EndedWith(s, "cancelled") /\ Len(emitted[s]) >= 3

(* C2: once the cancel flag of a scan is set, process_queue takes no       *)
(* further message of that scan from its queue (so neither 'done' nor any  *)
(* other event is delivered) and the listbox is not filled from that scan. *)
(* No step adds a message to the delivered history of a cancelled scan; the *)
(* history is only ever dropped, when a later scan starts.                  *)
C2_NothingDeliveredAfterCancel ==
    [][\A s \in Scans :
          /\ cancel_event[s] => delivered'[s] \in {delivered[s], <<>>}
          /\ cancel_event'[s] => listboxFrom' # s]_vars

\* the worker's 'done' sits in the queue of a cancelled scan whose timer has fired
\* after the cancellation and was not re-armed
C2_Witness ==
    \E s \in Scans :
        /\ cancel_event[s]
        /\ q[s] # <<>> /\ Last(q[s]).type = "done"
        /\ ui[s].after = 0

(* C3 (as claimed): when the cancel flag is set before the worker has put  *)
(* 'max', the worker never puts 'done', and unless an exception ends it    *)
(* its terminal message is 'cancelled'.                                    *)
C3_CancelBeforeMaxEndsCancelled ==
    \A s \in Scans :
        cancelMark[s] = "before_max" =>
            /\ ~Has(emitted[s], "done")
            /\ Ended(s) /\ ~Has(emitted[s], "error") => EndedWith(s, "cancelled")

(* C4 (as claimed): at most one 'max' is put, before every 'progress', and *)
(* a scan that has ended without 'max' ended 'cancelled'; a scan that ends *)
(* in 'done' or 'error' has put 'max'.                                     *)
C4_MaxAbsentOnlyIfCancelled ==
    \A s \in Scans :
        /\ Count(emitted[s], {"max"}) <= 1
        /\ \A i \in DOMAIN emitted[s] :
               emitted[s][i].type = "progress" =>
                   \E j \in 1..(i - 1) : emitted[s][j].type = "max"
        /\ Ended(s) /\ ~Has(emitted[s], "max") => EndedWith(s, "cancelled")

(* C4 (amended): at most one 'max' is put, before every 'progress'; a scan *)
(* that has ended without 'max' was cancelled or failed before pass 1      *)
(* completed (it ended 'cancelled', the flag having been set before 'max', *)
(* or it ended 'error'); a scan that ends in 'done' has put 'max'.         *)
C4_MaxAbsentOnlyIfCancelledOrFailed ==
    \A s \in Scans :
        /\ Count(emitted[s], {"max"}) <= 1
        /\ \A i \in DOMAIN emitted[s] :
               emitted[s][i].type = "progress" =>
                   \E j \in 1..(i - 1) : emitted[s][j].type = "max"
        /\ Ended(s) /\ ~Has(emitted[s], "max") =>
               \/ EndedWith(s, "cancelled") /\ cancelMark[s] = "before_max"
               \/ EndedWith(s, "error")
        /\ EndedWith(s, "done") => Count(emitted[s], {"max"}) = 1

\* a scan that failed in pass 1, and so ended 'error' without 'max'
C4_Witness ==
    \E s \in Scans : EndedWith(s, "error") /\ ~Has(emitted[s], "max")

(* C5: when the worker puts 'done', the list it carries holds, each once,  *)
(* exactly the directories the walk of the (unmodified) tree visits that   *)
(* have no sub-directory and no file named outside IGNORED_ITEMS.          *)
C5_DoneListsEmptyFolders ==
    [][\A s \in Scans :
          (/\ w[s].pc = "pass2" /\ w'[s].pc = "exit"
           /\ Last(emitted'[s]).type = "done" /\ ~modified[s]) =>
              LET result == Last(emitted'[s]).paths
              IN  /\ NoDuplicates(result)
                  /\ Range(result) =
                         {p \in Visited(fs, w[s].folder_path) : EffectivelyEmpty(fs, p)}]_vars

\* the scenario root/{a/, b/{.DS_Store}, c/{file.txt}} scanned to the end
C5_Witness ==
    \E s \in Scans :
        /\ fs = TreeScenario
        /\ EndedWith(s, "done")
        /\ Range(Last(emitted[s]).paths) = {ROOT \o <<Sub(1)>>, ROOT \o <<Sub(2)>>}

(* C6 (as claimed): the scan of a root that cannot be listed ends with     *)
(* 'error', never with 'done'.                                             *)
C6_UnlistableRootFails ==
    \A s \in Scans :
        (Ended(s) /\ ~Listable(fs, w[s].folder_path)) => EndedWith(s, "error")

(* C7 (as claimed): after process_queue has handled 'error' (and nothing   *)
(* else has happened to the main window since), the status label does not  *)
(* say that no empty folders were found.                                   *)
C7_ErrorIsNotZeroResults ==
    \A s \in Scans :
        (s = nscans /\ Has(delivered[s], "error")) =>
            label_status.text # "No empty folders found."

(* C8: a scan that ended as cancelled returns no partial result: its       *)
(* 'cancelled' message carries no path and the listbox is not filled from  *)
(* that scan.                                                              *)
C8_CancelledReturnsNothing ==
    \A s \in Scans :
        EndedWith(s, "cancelled") =>
            /\ Last(emitted[s]).paths = <<>>
            /\ listboxFrom # s

\* cancelled in pass 2, after a directory had been classified as empty
C8_Witness ==
    \E s \in Scans : EndedWith(s, "cancelled") /\ w[s].empty_folders # <<>>

(* C9 (as claimed): a scan that ends in 'done' has put, before it, a       *)
(* 'progress' message carrying the final count of processed directories.   *)
C9_FinalProgressFlushed ==
    \A s \in Scans :
        EndedWith(s, "done") =>
            \E i \in DOMAIN emitted[s] :
                /\ emitted[s][i].type = "progress"
                /\ emitted[s][i].num = w[s].processed_dirs

(* C10: send2trash is called on a path only after os.path.exists and       *)
(* os.listdir of that path, made in the same iteration of the same loop,   *)
(* found it to exist and to hold nothing but names in IGNORED_ITEMS; what  *)
(* the scan found is not what lets the move through.                       *)
C10_MoveOnlyAfterFreshCheck ==
    \A k \in DOMAIN sent :
        LET c == sent[k]
        IN  /\ c.check.call = c.call
            /\ c.check.i = c.i
            /\ c.check.path = c.path
            /\ c.check.exists
            /\ c.check.listed
            /\ \A j \in DOMAIN c.check.listing : c.check.listing[j] \in IGNORED_ITEMS

\* two folders the scan found empty were selected; the first had gained file.txt
\* since and was refused, the second was handed to send2trash
C10_Witness ==
    /\ Len(trash.folders_to_trash) = 2
    /\ \E k \in DOMAIN trash.failed_moves :
           /\ trash.failed_moves[k].path = trash.folders_to_trash[1]
           /\ trash.failed_moves[k].reason = "No longer empty."
    /\ sent # <<>>
    /\ Last(sent).call = ncalls
    /\ Last(sent).path = trash.folders_to_trash[2]

---------------------------------------------------------------------------
(* Vocabulary of the move-to-trash properties *)

NotFound == "Folder not found (already moved or deleted)."

NoLongerEmpty == "No longer empty."

\* the outcomes recorded so far, as the two lists hold them
Recorded(tr) == Len(tr.successful_moves) + Len(tr.failed_moves)

\* this step records the outcome of the folder the loop is at
Records == Recorded(trash') = Recorded(trash) + 1

\* the outcome this step records
NewOutcome ==
    IF Len(trash'.successful_moves) > Len(trash.successful_moves)
    THEN Failure(Last(trash'.successful_moves), "moved")
    ELSE Last(trash'.failed_moves)

Significant(listing) == \E j \in DOMAIN listing : listing[j] \notin IGNORED_ITEMS

(* C11 (as claimed): the outcome recorded for a path is NotFound if        *)
(* os.path.exists found it missing, otherwise NoLongerEmpty if the listing *)
(* holds a name outside IGNORED_ITEMS, otherwise Moved if send2trash       *)
(* succeeded and MoveFailed if it raised: one of these four, always.       *)
C11_FourOutcomes ==
    [][Records =>
          LET c == lastCheck'
          IN  /\ NewOutcome.path = trash.folders_to_trash[trash.i]
              /\ NewOutcome.reason =
                     IF ~c.exists THEN NotFound
                     ELSE IF Significant(c.listing) THEN NoLongerEmpty
                     ELSE IF sent' # sent /\ Last(sent').moved THEN "moved"
                     ELSE "send2trash error"]_vars

(* C11 (amended): as above, with the case the claim leaves out: a path     *)
(* that exists but whose listing raises is recorded as failed with the     *)
(* error of the listing, and send2trash is not called on it.  NotFound is  *)
(* recorded exactly when the path is missing at the existence check, and a *)
(* path recorded as Moved is gone from the tree.                           *)
C11_OutcomePerPath ==
    [][Records =>
          LET c == lastCheck'
              folder_path == trash.folders_to_trash[trash.i]
          IN  /\ NewOutcome.path = folder_path
              /\ c.call = ncalls /\ c.i = trash.i /\ c.path = folder_path
              /\ NewOutcome.reason =
                     IF ~c.exists THEN NotFound
                     ELSE IF ~c.listed THEN "os.listdir error"
                     ELSE IF Significant(c.listing) THEN NoLongerEmpty
                     ELSE IF sent' # sent /\ Last(sent').moved THEN "moved"
                     ELSE "send2trash error"
              /\ NewOutcome.reason = NotFound <=>
                     (trash.pc = "exists" /\ ~Exists(fs, folder_path))
              /\ NewOutcome.reason = "os.listdir error" => sent' = sent
              /\ NewOutcome.reason = "moved" => ~Exists(fs', folder_path)]_vars

\* a folder that gained file.txt after the scan was refused, its sibling was moved
C11_Witness ==
    /\ trash.pc = "report"
    /\ Len(trash.folders_to_trash) = 2
    /\ trash.successful_moves = <<trash.folders_to_trash[2]>>
    /\ trash.failed_moves = <<Failure(trash.folders_to_trash[1], NoLongerEmpty)>>
    /\ Exists(fs, trash.folders_to_trash[1])
    /\ ~Exists(fs, trash.folders_to_trash[2])

\* how often the two lists hold the path
Occurrences(tr, path) ==
    Cardinality({j \in DOMAIN tr.successful_moves : tr.successful_moves[j] = path})
    + Cardinality({j \in DOMAIN tr.failed_moves : tr.failed_moves[j].path = path})

(* C12: whatever fails on single paths (missing path, folder no longer     *)
(* empty, listing error, send2trash error), the loop goes through every    *)
(* selected path: while it runs, one outcome is recorded for each path     *)
(* before the current one; when it is through, every selected path is in   *)
(* exactly one of successful_moves and failed_moves, exactly once, and the *)
(* number of outcomes is the number of paths.                              *)
C12_BatchIsolation ==
    /\ trash.pc \in {"exists", "listdir", "move"} => Recorded(trash) = trash.i - 1
    /\ trash.pc = "report" =>
          /\ Recorded(trash) = Len(trash.folders_to_trash)
          /\ \A k \in DOMAIN trash.folders_to_trash :
                 Occurrences(trash, trash.folders_to_trash[k]) = 1

\* the first of two paths failed before send2trash was reached, the second was
\* still dealt with
C12_Witness ==
    /\ trash.pc = "report"
    /\ Len(trash.folders_to_trash) = 2
    /\ trash.failed_moves # <<>>
    /\ trash.failed_moves[1].path = trash.folders_to_trash[1]
    /\ trash.failed_moves[1].reason \in {NotFound, "os.listdir error"}
    /\ Occurrences(trash, trash.folders_to_trash[2]) = 1

(* C13 (as claimed): the report lists the outcomes in the order of the     *)
(* selected paths: the outcome of an earlier path stands before the        *)
(* outcome of a later one.                                                 *)
C13_ReportInInputOrder ==
    trash.pc = "report" =>
        LET ledger == Summary(trash)
        IN  \A a, b \in DOMAIN ledger :
                a < b =>
                    \A i, j \in DOMAIN trash.folders_to_trash :
                        (/\ trash.folders_to_trash[i] = ledger[a].path
                         /\ trash.folders_to_trash[j] = ledger[b].path) => i < j

---------------------------------------------------------------------------
(* Vocabulary of the scheduling properties *)

\* the thread of scan s has been started and has not returned
Running(s) == w[s].pc \in {"prescan", "pass1", "pass2", "batch"}

(* C14 (as claimed): at every moment at most one worker thread is          *)
(* executing: no scan's worker runs while the worker of another scan has   *)
(* not returned.                                                           *)
C14_OneWorkerAtATime ==
    \A s, r \in Scans : (Running(s) /\ Running(r)) => s = r

(* C15: once the cancel flag of a scan is set while its worker runs, the   *)
(* worker starts no further directory iteration: its counters and its      *)
(* result list stay as they are and it puts no further 'progress'; when it *)
(* stops, the last message it has put is a terminal one; and under fair    *)
(* scheduling a running worker, cancelled or not, eventually returns.      *)
C15_CancelObservedWithinOneStep ==
    /\ [][\A s \in Scans :
              (cancel_event[s] /\ Running(s)) =>
                  /\ w'[s].total_dirs = w[s].total_dirs
                  /\ w'[s].processed_dirs = w[s].processed_dirs
                  /\ w'[s].empty_folders = w[s].empty_folders
                  /\ Count(emitted'[s], {"progress"}) = Count(emitted[s], {"progress"})
                  /\ ~Running(s)' => Last(emitted'[s]).type \in Terminal]_vars
    /\ \A s \in Scans : Running(s) ~> ~Running(s)

\* cancelled in the main pass of the scenario tree: some directories processed,
\* others never started
C15_Witness ==
    \E s \in Scans :
        /\ fs = TreeScenario
        /\ cancel_event[s]
        /\ EndedWith(s, "cancelled")
        /\ w[s].processed_dirs \in 1..3

(* C16: the step in which process_queue handles 'done' or 'error', and the *)
(* step in which the user cancels, close the progress window of the scan   *)
(* and enable Browse; the window of a cancelled scan, or of one whose      *)
(* 'done' or 'error' has been handled, is closed; and under fair           *)
(* scheduling of the worker and of the poll timer the window of every scan *)
(* is closed in the end.                                                   *)
C16_ConsumerNotLeftRunning ==
    /\ [][\A s \in Scans :
              (\/ /\ Len(delivered'[s]) = Len(delivered[s]) + 1
                  /\ Last(delivered'[s]).type \in {"done", "error"}
               \/ cancel_event'[s] /\ ~cancel_event[s]) =>
                  /\ ui'[s].progress_win = "destroyed"
                  /\ button_browse' = "normal"]_vars
    /\ [](\A s \in Scans :
              (cancel_event[s] \/ Has(delivered[s], "done") \/ Has(delivered[s], "error"))
                  => ui[s].progress_win = "destroyed")
    /\ \A s \in Scans : (ui[s].progress_win = "open") ~> (ui[s].progress_win = "destroyed")

\* a scan that failed: the error was shown, the window is closed, Browse is enabled
C16_Witness ==
    \E s \in Scans :
        /\ Has(delivered[s], "error")
        /\ errorbox > 0
        /\ ui[s].progress_win = "destroyed"
        /\ button_browse = "normal"

---------------------------------------------------------------------------
(* Vocabulary of the classification properties *)

\* this step is a turn of the main loop that classifies a directory
Classifies(s) ==
    /\ w[s].pc = "pass2"
    /\ w'[s].processed_dirs = w[s].processed_dirs + 1

\* the directory that turn is about
Classified(s) == WalkNext(w[s].walk, fs, FALSE).item.root

\* the turn appends path to the results
Appends(s, path) == w'[s].empty_folders = Append(w[s].empty_folders, path)

---------------------------------------------------------------------------
(* Vocabulary of the size properties *)

RECURSIVE SumSizes(_, _)
SumSizes(attrs, files) ==
    IF files = {} THEN 0
    ELSE LET fp == CHOOSE x \in files : TRUE
         IN  attrs[fp].size + SumSizes(attrs, files \ {fp})

\* the files in the directories a walk from top lists that are no symbolic links
\* and whose size can be read
Counted(tree, attrs, top) ==
    {fp \in DOMAIN attrs :
        /\ Parent(fp) \in Visited(tree, top)
        /\ ~attrs[fp].islink
        /\ attrs[fp].readable}

(* C18: get_folder_size returns the sum of the sizes of the files under    *)
(* the path (in the directories its walk can list) that are no symbolic    *)
(* links and whose size can be read; links and unreadable files add        *)
(* nothing, a root that cannot be listed gives zero, and the call always   *)
(* goes on to its return: no step of it ends in an error.                  *)
C18_FolderSize ==
    /\ sz.pc \in {"call", "walk", "files", "return"}
    /\ sz.pc # "return" => ENABLED SizeNext
    /\ sz.pc = "return" =>
          /\ sz.total_size = SumSizes(sz.attrs, Counted(sz.tree, sz.attrs, sz.folder_path))
          /\ ~Listable(sz.tree, sz.folder_path) => sz.total_size = 0

\* one readable file of 2048 bytes and one broken symbolic link: 2048
C18_Witness ==
    /\ sz.pc = "return"
    /\ sz.tree = (ROOT :> Dir(<<>>, <<Code("file.txt"), Code(".DS_Store")>>, TRUE, 0))
    /\ sz.attrs[ROOT \o <<Code("file.txt")>>] = FileAttr(FALSE, 2048, TRUE)
    /\ sz.attrs[ROOT \o <<Code(".DS_Store")>>] = FileAttr(TRUE, 100, FALSE)
    /\ sz.total_size = 2048

---------------------------------------------------------------------------
(* C19 (as claimed): once process_queue has handled the terminal message   *)
(* of a scan, no further process_queue call is scheduled for that scan:    *)
(* its timer is not armed.                                                 *)
C19_PollingStopsAfterTerminal ==
    \A s \in Scans :
        (\E i \in DOMAIN delivered[s] : delivered[s][i].type \in Terminal) =>
            ui[s].after = 0

(* C20 (as claimed): in a scan of a tree that does not change, the count   *)
(* of processed directories never exceeds the total that 'max' announced,  *)
(* every 'progress' carries at most the value of 'max', and when the scan  *)
(* is done the count equals the total.                                     *)
C20_ProcessedWithinTotal ==
    \A s \in Scans :
        (~modified[s] /\ Has(emitted[s], "max")) =>
            /\ w[s].processed_dirs <= w[s].total_dirs
            /\ \A i, j \in DOMAIN emitted[s] :
                   (emitted[s][i].type = "max" /\ emitted[s][j].type = "progress") =>
                       emitted[s][j].num <= emitted[s][i].num
            /\ EndedWith(s, "done") => w[s].processed_dirs = w[s].total_dirs

---------------------------------------------------------------------------
(* Vocabulary of the isolation property *)

\* the widgets of the progress window of a scan that show what the worker reported
Shown(u) == <<u.maximum, u.value, u.status_label>>

(* C21: every scan has its own queue, flag, window and timer.  What        *)
(* process_queue has taken for a scan, followed by what still waits in     *)
(* that scan's queue, is what that scan's own worker has put, in order;    *)
(* the progress bar and the status of a scan change only when a message of *)
(* its own queue is handled, and the listbox is filled only from the       *)
(* 'done' of the scan whose queue was read, never from a cancelled one;    *)
(* setting the flag of one scan changes neither the flag nor the worker of *)
(* any other scan, and a worker reports 'cancelled' only when its own flag *)
(* is set.                                                                 *)
C21_ScansIsolated ==
    /\ [](\A s \in Scans : emitted[s] = delivered[s] \o q[s])
    /\ [][\A s \in Scans :
              /\ (Shown(ui'[s]) # Shown(ui[s]) /\ ui'[s].progress_win = "open"
                      /\ ui[s].progress_win = "open") =>
                     /\ q[s] # <<>>
                     /\ delivered'[s] = Append(delivered[s], Head(q[s]))
                     /\ \A r \in Scans \ {s} : q'[r] = q[r] /\ delivered'[r] = delivered[r]
              /\ (listboxFrom' = s /\ listboxFrom' # listboxFrom) =>
                     /\ ~cancel_event[s]
                     /\ q[s] # <<>> /\ Head(q[s]).type = "done"
                     /\ listbox' = Sorted(Head(q[s]).paths)
              /\ (cancel_event'[s] /\ ~cancel_event[s]) =>
                     \A r \in Scans \ {s} :
                         cancel_event'[r] = cancel_event[r] /\ w'[r] = w[r]
              /\ (emitted'[s] # emitted[s] /\ emitted'[s] # <<>>
                      /\ Last(emitted'[s]).type = "cancelled") => cancel_event[s]]_vars

\* the first scan was cancelled and its worker still runs, with a message waiting in
\* its queue, while the second scan's consumer has handled messages of its own worker
C21_Witness ==
    \E r, s \in Scans :
        /\ r < s
        /\ cancel_event[r] /\ Running(r) /\ q[r] # <<>>
        /\ ~cancel_event[s] /\ Len(delivered[s]) >= 2
        /\ ui[s].progress_win = "open"

====
